---- MODULE Spec2Model ----
(***************************************************************************)
(* A model of the command line parser of scripts/flags.js: the Flag        *)
(* builder, the value parsers, Parser.parseRaw and Parser.printHelp.       *)
(*                                                                         *)
(* Text is a sequence of one-character strings, so that the character      *)
(* level operations of the code (startsWith, lastIndexOf, substring,       *)
(* indexing a cluster) are computed, not assumed.  Indices into text and   *)
(* into the argument vector are 0-based as in the code; the sequences      *)
(* themselves are 1-based, hence the "+ 1" where a sequence is indexed.    *)
(***************************************************************************)
EXTENDS Integers, Sequences, FiniteSets, TLC

VARIABLES flags, exit, pc, args, called, result, events, host,
          net, root, stack, visited, wpc

vars == <<flags, exit, pc, args, called, result, events, host,
          net, root, stack, visited, wpc>>

\* the state of a Parser and of its caller, and the state of a network walk
parserVars == <<flags, exit, pc, args, called, result, events, host>>

walkVars == <<net, root, stack, visited, wpc>>

---------------------------------------------------------------------------
(* JavaScript values.  Every value is a record of the same shape so that   *)
(* values of different JavaScript types can be compared.                   *)

Null == [t |-> "null", n |-> 0, s |-> <<>>]

NaN == [t |-> "nan", n |-> 0, s |-> <<>>]

Bool(b) == [t |-> "bool", n |-> (IF b THEN 1 ELSE 0), s |-> <<>>]

Num(k) == [t |-> "num", n |-> k, s |-> <<>>]

Str(cs) == [t |-> "str", n |-> 0, s |-> cs]

\* !v for the values the code tests: null and the empty string are falsy.
Falsy(v) == v.t = "null" \/ (v.t = "str" /\ v.s = <<>>)

---------------------------------------------------------------------------
(* Text helpers.                                                           *)

Digits == <<"0", "1", "2", "3", "4", "5", "6", "7", "8", "9">>

IsDigit(ch) == \E k \in DOMAIN Digits : Digits[k] = ch

DigitVal(ch) == (CHOOSE k \in DOMAIN Digits : Digits[k] = ch) - 1

\* String.prototype.startsWith
StartsWith(cs, prefix) ==
    /\ Len(cs) >= Len(prefix)
    /\ \A k \in DOMAIN prefix : cs[k] = prefix[k]

\* String.prototype.lastIndexOf for a one-character needle: 0-based, -1 if absent
LastIndexOf(cs, ch) ==
    IF \E k \in DOMAIN cs : cs[k] = ch
    THEN (CHOOSE k \in DOMAIN cs : cs[k] = ch /\ \A m \in DOMAIN cs : cs[m] = ch => m <= k) - 1
    ELSE -1

Clamp(x, len) == IF x < 0 THEN 0 ELSE IF x > len THEN len ELSE x

\* String.prototype.substring(from, to): 0-based, end exclusive, both ends
\* clamped to the text and swapped when from > to
Substring(cs, from, to) ==
    LET a == Clamp(from, Len(cs))
        b == Clamp(to, Len(cs))
        lo == IF a <= b THEN a ELSE b
        hi == IF a <= b THEN b ELSE a
    IN  [k \in 1..(hi - lo) |-> cs[lo + k]]

\* String.prototype.substring(from)
SubstringFrom(cs, from) == Substring(cs, from, Len(cs))

RECURSIVE DigitsValue(_, _)
\* the value of a run of decimal digits read left to right
DigitsValue(cs, acc) ==
    IF cs = <<>> THEN acc ELSE DigitsValue(Tail(cs), 10 * acc + DigitVal(Head(cs)))

RECURSIVE DigitPrefix(_)
\* the longest prefix of cs made of decimal digits
DigitPrefix(cs) ==
    IF cs = <<>> \/ ~IsDigit(Head(cs)) THEN <<>> ELSE <<Head(cs)>> \o DigitPrefix(Tail(cs))

\* parseInt(text): an optional sign, then the longest run of digits; what
\* follows the digits is ignored, and no digit at all gives NaN.
ParseInt(cs) ==
    LET neg == cs # <<>> /\ Head(cs) = "-"
        signed == cs # <<>> /\ (Head(cs) = "-" \/ Head(cs) = "+")
        body == IF signed THEN Tail(cs) ELSE cs
        ds == DigitPrefix(body)
    IN  IF ds = <<>> THEN NaN
        ELSE Num(IF neg THEN 0 - DigitsValue(ds, 0) ELSE DigitsValue(ds, 0))

\* parseFloat(text) on the texts of this model, none of which holds a decimal
\* point or an exponent: the same prefix rule as parseInt.
ParseFloat(cs) == ParseInt(cs)

\* Number(value), the conversion CounterParser.accumulate applies: the whole of
\* a text must be numeric (the empty text is 0), null is 0, true is 1.
ToNumber(v) ==
    CASE v.t = "null" -> Num(0)
      [] v.t = "bool" -> Num(v.n)
      [] v.t = "num" -> v
      [] v.t = "nan" -> NaN
      [] v.t = "str" ->
            IF v.s = <<>> THEN Num(0)
            ELSE LET neg == Head(v.s) = "-"
                     signed == Head(v.s) = "-" \/ Head(v.s) = "+"
                     body == IF signed THEN Tail(v.s) ELSE v.s
                 IN  IF body # <<>> /\ DigitPrefix(body) = body
                     THEN Num(IF neg THEN 0 - DigitsValue(body, 0) ELSE DigitsValue(body, 0))
                     ELSE NaN

RECURSIVE NatToText(_)
NatToText(k) ==
    IF k < 10 THEN <<Digits[k + 1]>> ELSE NatToText(k \div 10) \o <<Digits[(k % 10) + 1]>>

\* value.toString() for the values an argument vector may hold
toString(v) ==
    CASE v.t = "str" -> v.s
      [] v.t = "num" -> IF v.n < 0 THEN <<"-">> \o NatToText(0 - v.n) ELSE NatToText(v.n)
      [] v.t = "bool" -> IF v.n = 1 THEN <<"t", "r", "u", "e">> ELSE <<"f", "a", "l", "s", "e">>
      [] v.t = "nan" -> <<"N", "a", "N">>

---------------------------------------------------------------------------
(* String.prototype.localeCompare, as the host's default collation orders  *)
(* the characters of flag names: punctuation, then digits, then letters in *)
(* alphabetical order whatever their case; texts that differ only in case  *)
(* are ordered lower case first.  The result is -1, 0 or 1.                *)

Lower == <<"a", "b", "c", "d", "e", "f", "g", "h", "i", "j", "k", "l", "m",
           "n", "o", "p", "q", "r", "s", "t", "u", "v", "w", "x", "y", "z">>

Upper == <<"A", "B", "C", "D", "E", "F", "G", "H", "I", "J", "K", "L", "M",
           "N", "O", "P", "Q", "R", "S", "T", "U", "V", "W", "X", "Y", "Z">>

IsUpper(ch) == \E k \in DOMAIN Upper : Upper[k] = ch

LetterIndex(ch) ==
    IF \E k \in DOMAIN Lower : Lower[k] = ch THEN CHOOSE k \in DOMAIN Lower : Lower[k] = ch
    ELSE IF IsUpper(ch) THEN CHOOSE k \in DOMAIN Upper : Upper[k] = ch
    ELSE 0

PrimaryRank(ch) ==
    IF LetterIndex(ch) > 0 THEN 20 + LetterIndex(ch)
    ELSE IF IsDigit(ch) THEN 10 + DigitVal(ch)
    ELSE IF ch = "-" THEN 1 ELSE 2

RECURSIVE ComparePrimary(_, _)
ComparePrimary(a, b) ==
    IF a = <<>> /\ b = <<>> THEN 0
    ELSE IF a = <<>> THEN -1
    ELSE IF b = <<>> THEN 1
    ELSE IF PrimaryRank(Head(a)) < PrimaryRank(Head(b)) THEN -1
    ELSE IF PrimaryRank(Head(a)) > PrimaryRank(Head(b)) THEN 1
    ELSE ComparePrimary(Tail(a), Tail(b))

RECURSIVE CompareCase(_, _)
CompareCase(a, b) ==
    IF a = <<>> \/ b = <<>> THEN 0
    ELSE IF ~IsUpper(Head(a)) /\ IsUpper(Head(b)) THEN -1
    ELSE IF IsUpper(Head(a)) /\ ~IsUpper(Head(b)) THEN 1
    ELSE CompareCase(Tail(a), Tail(b))

LocaleCompare(a, b) ==
    IF ComparePrimary(a, b) # 0 THEN ComparePrimary(a, b) ELSE CompareCase(a, b)

---------------------------------------------------------------------------
(* The value parsers.  A parser is named by its kind; "none" is a Flag     *)
(* whose _parser is null.  A default literal is Null or a Str.             *)

NoShort == "<null>"

StringParserArgs == 1

NumberParserArgs == 1

IntegerParserArgs == 1

CounterParserArgs == 0

\* <parser>.args()
ParserArgs(kind) ==
    CASE kind = "string" -> StringParserArgs
      [] kind = "number" -> NumberParserArgs
      [] kind = "integer" -> IntegerParserArgs
      [] kind = "counter" -> CounterParserArgs

\* <parser>.initialValue(val)
ParserInitialValue(kind, val) ==
    CASE kind = "string" -> val
      [] kind = "number" -> IF val.t = "null" THEN Null ELSE ParseFloat(val.s)
      [] kind = "integer" -> IF Falsy(val) THEN Null ELSE ParseInt(val.s)
      [] kind = "counter" -> IF Falsy(val) THEN Num(0) ELSE ParseInt(val.s)

\* the sum current + 1 of CounterParser.accumulate
PlusOne(v) == IF v.t = "num" THEN Num(v.n + 1) ELSE NaN

\* <parser>.accumulate(current, ...fArgs): [ok |-> FALSE] is the throw of
\* "missing accumulate value"; fArgs[1] is args[0]
ParserAccumulate(kind, current, fArgs) ==
    CASE kind = "string" -> [ok |-> TRUE, v |-> Str(fArgs[1])]
      [] kind = "number" ->
            IF fArgs[1] = <<>> THEN [ok |-> FALSE, v |-> Null]
            ELSE [ok |-> TRUE, v |-> ParseFloat(fArgs[1])]
      [] kind = "integer" ->
            IF fArgs[1] = <<>> THEN [ok |-> FALSE, v |-> Null]
            ELSE [ok |-> TRUE, v |-> ParseInt(fArgs[1])]
      [] kind = "counter" -> [ok |-> TRUE, v |-> PlusOne(ToNumber(current))]

---------------------------------------------------------------------------
(* Flag: the builder and the operations parseRaw calls.                    *)

\* new Flag(name, parser)
NewFlag(name, parser) ==
    [long |-> name, short |-> NoShort, parser |-> parser, default |-> Null,
     forceExit |-> FALSE, action |-> "none"]

\* Flag.shortOpt(ch)
FlagShortOpt(f, ch) == [f EXCEPT !.short = IF Len(ch) = 0 THEN NoShort ELSE ch[1]]

\* Flag.default(val)
FlagDefault(f, val) == [f EXCEPT !.default = val]

\* Flag.action(fn): fn is "printHelp" (the help flag's) or "callback" (a caller's)
FlagAction(f, fn) == [f EXCEPT !.action = fn]

\* Flag.forceExit(on)
FlagForceExit(f, on) == [f EXCEPT !.forceExit = on]

\* Flag.args()
FlagArgs(f) == IF f.parser = "none" THEN 0 ELSE ParserArgs(f.parser)

\* Flag.initialValue()
FlagInitialValue(f) ==
    IF f.parser # "none" THEN ParserInitialValue(f.parser, f.default) ELSE Bool(FALSE)

\* Flag.accumulate(data, ...fArgs): the new data, or [ok |-> FALSE] on a throw
FlagAccumulate(f, data, fArgs) ==
    IF f.parser # "none"
    THEN LET existing == IF f.long \in DOMAIN data THEN data[f.long] ELSE Null
             r == ParserAccumulate(f.parser, existing, fArgs)
         IN  [ok |-> r.ok,
              data |-> IF r.ok THEN [n \in DOMAIN data \cup {f.long} |->
                                        IF n = f.long THEN r.v ELSE data[n]]
                       ELSE data]
    ELSE [ok |-> TRUE,
          data |-> [n \in DOMAIN data \cup {f.long} |->
                        IF n = f.long THEN Bool(TRUE) ELSE data[n]]]

---------------------------------------------------------------------------
(* Parser: construction, registration, printHelp.                          *)

HelpName == <<"h", "e", "l", "p">>

\* the flags of a new Parser
ParserConstructor ==
    <<FlagForceExit(FlagAction(FlagShortOpt(NewFlag(HelpName, "none"), <<"h">>),
                               "printHelp"), TRUE)>>

\* Parser.flag(name)
ParserFlag(F, name) == Append(F, NewFlag(name, "none"))

\* Parser.string(name)
ParserString(F, name) == Append(F, NewFlag(name, "string"))

\* Parser.number(name)
ParserNumber(F, name) == Append(F, NewFlag(name, "number"))

\* Parser.integer(name)
ParserInteger(F, name) == Append(F, NewFlag(name, "integer"))

\* Parser.counter(name)
ParserCounter(F, name) == Append(F, NewFlag(name, "counter"))

\* the UTF-16 code unit of a character of the texts of the model
CodeUnit(ch) ==
    IF IsUpper(ch) THEN 64 + LetterIndex(ch)
    ELSE IF LetterIndex(ch) > 0 THEN 96 + LetterIndex(ch)
    ELSE IF IsDigit(ch) THEN 48 + DigitVal(ch)
    ELSE IF ch = "-" THEN 45 ELSE 61

\* FlagCompare with a fault: two aliases are compared by code unit, as the
\* operator < on strings does (C28 must notice)
FlagCompareByCodeUnit(a, b) ==
    IF a.short # NoShort
    THEN IF b.short # NoShort
         THEN (IF CodeUnit(a.short) < CodeUnit(b.short) THEN -1
               ELSE IF CodeUnit(a.short) > CodeUnit(b.short) THEN 1 ELSE 0)
         ELSE -1
    ELSE IF b.short # NoShort THEN 1 ELSE LocaleCompare(a.long, b.long)

\* the comparator printHelp sorts with
FlagCompare(a, b) ==
    IF a.short # NoShort
    THEN IF b.short # NoShort THEN LocaleCompare(<<a.short>>, <<b.short>>) ELSE -1
    ELSE IF b.short # NoShort THEN 1 ELSE LocaleCompare(a.long, b.long)

RECURSIVE InsertFlag(_, _)
\* f placed after every flag of the sorted F that does not compare greater
InsertFlag(F, f) ==
    IF F = <<>> THEN <<f>>
    ELSE IF FlagCompare(F[Len(F)], f) <= 0 THEN Append(F, f)
    ELSE Append(InsertFlag(SubSeq(F, 1, Len(F) - 1), f), F[Len(F)])

RECURSIVE SortFlags(_)
\* this.flags.sort(comparator): Array.prototype.sort is stable
SortFlags(F) ==
    IF F = <<>> THEN <<>> ELSE InsertFlag(SortFlags(SubSeq(F, 1, Len(F) - 1)), F[Len(F)])

---------------------------------------------------------------------------
(* Parser.parseRaw.  F is this.flags when the call starts, A the argument  *)
(* vector.  The local state st of the call holds the cursor i, flagValues, *)
(* positional, and status: "run" while the token loop runs, then "ok" (the *)
(* final return), "exit" (the return of a forceExit flag) or "error" (a    *)
(* throw, described by err).  st.events is the history of the call: which  *)
(* tokens and cluster characters were dispatched, which argument indices   *)
(* were read as option values, which flags accumulated, which actions ran. *)
(* A flag is named in an event by its index in F, the flags the lookup     *)
(* tables sflags and lflags of the call were built from.                   *)

NoErr == [kind |-> "none", name |-> <<>>]

\* An event of the history: e is "token" (the token at index i is dispatched),
\* "char" (the character at index j of the cluster at i is looked up), "value"
\* (args[i] is read as an option value), "accumulate" (flag f accumulates the
\* texts v, matched by the token at i, at index j of a cluster or with j = 0
\* by its long name), "callback" (the action of f, a callback of the caller,
\* runs) or "printHelp" (the action of f, the help flag's printHelp, runs).
Event(e, i, j, f, v) == [e |-> e, i |-> i, j |-> j, f |-> f, v |-> v]

\* sflags[ch]: the flags are entered in order, so the last one with the alias
\* stays; 0 when ch is not in sflags
LookupShort(F, ch) ==
    IF \E k \in DOMAIN F : F[k].short = ch
    THEN CHOOSE k \in DOMAIN F : F[k].short = ch /\ \A m \in DOMAIN F : F[m].short = ch => m <= k
    ELSE 0

\* lflags[name], likewise
LookupLong(F, name) ==
    IF \E k \in DOMAIN F : F[k].long = name
    THEN CHOOSE k \in DOMAIN F : F[k].long = name /\ \A m \in DOMAIN F : F[m].long = name => m <= k
    ELSE 0

\* InitialValues with a fault: only the flags that have a value parser get an
\* entry before the scan (C6 must notice)
InitialValuesOfParsers(F) ==
    [n \in {F[k].long : k \in {q \in DOMAIN F : F[q].parser # "none"}} |->
        FlagInitialValue(F[LookupLong(F, n)])]

\* flagValues after the set-up loop: a later flag of the same name overwrites
InitialValues(F) ==
    [n \in {F[k].long : k \in DOMAIN F} |-> FlagInitialValue(F[LookupLong(F, n)])]

EmptyMap == [n \in {} |-> Null]

ParseStart(F) ==
    [i |-> 0, values |-> InitialValues(F), positional |-> <<>>, status |-> "run",
     err |-> NoErr, events |-> <<>>]

\* Throw with a fault: the error is dropped and the scan goes on with the
\* next token (C14 must notice)
ThrowSkipsToken(st, kind, name) == [st EXCEPT !.i = st.i + 1]

\* throw new Error(...)
Throw(st, kind, name) == [st EXCEPT !.status = "error", !.err = [kind |-> kind, name |-> name]]

\* DoAction with a fault: the action runs only at the first character of a
\* cluster or for a long option (C23 must notice)
DoActionOncePerToken(F, k, i, j) ==
    IF F[k].action # "none" /\ j <= 1 THEN <<Event(F[k].action, i, j, k, <<>>)>> ELSE <<>>

\* the events of flag.doAction()
DoAction(F, k, i, j) ==
    IF F[k].action # "none" THEN <<Event(F[k].action, i, j, k, <<>>)>> ELSE <<>>

\* Match with a fault: the forceExit test is missing (C4 must notice)
MatchIgnoresForceExit(F, st, k, fArgs, adv, j) ==
    LET acc == FlagAccumulate(F[k], st.values, fArgs)
    IN  IF ~acc.ok THEN Throw(st, "missing accumulate value", F[k].long)
        ELSE [st EXCEPT !.values = acc.data,
                        !.i = st.i + adv,
                        !.events = st.events \o <<Event("accumulate", st.i, j, k, fArgs)>>
                                             \o DoAction(F, k, st.i, j)]

\* Match with a fault: the cursor is not moved over the tokens read as values
\* (C9 must notice)
MatchKeepsCursor(F, st, k, fArgs, adv, j) ==
    LET acc == FlagAccumulate(F[k], st.values, fArgs)
    IN  IF ~acc.ok THEN Throw(st, "missing accumulate value", F[k].long)
        ELSE [st EXCEPT !.values = acc.data,
                        !.events = st.events \o <<Event("accumulate", st.i, j, k, fArgs)>>
                                             \o DoAction(F, k, st.i, j),
                        !.status = IF F[k].forceExit THEN "exit" ELSE "run"]

\* The matched flag F[k], from flag.accumulate to the forceExit test:
\* accumulate with fArgs, move the cursor over the adv tokens read as values,
\* run the action, and return at once if the flag forces the exit.
Match(F, st, k, fArgs, adv, j) ==
    LET acc == FlagAccumulate(F[k], st.values, fArgs)
    IN  IF ~acc.ok THEN Throw(st, "missing accumulate value", F[k].long)
        ELSE [st EXCEPT !.values = acc.data,
                        !.i = st.i + adv,
                        !.events = st.events \o <<Event("accumulate", st.i, j, k, fArgs)>>
                                             \o DoAction(F, k, st.i, j),
                        !.status = IF F[k].forceExit THEN "exit" ELSE "run"]

\* ReadValues with a fault: a token read as a value loses a leading "-"
\* (C26 must notice)
ReadValuesStripsDash(A, st, n) ==
    [k \in 1..n |->
        LET text == toString(A[st.i + k + 1])
        IN  IF StartsWith(text, <<"-">>) THEN SubstringFrom(text, 1) ELSE text]

\* the values args[i+1+k].toString(), k < n, and the events of reading them
ReadValues(A, st, n) == [k \in 1..n |-> toString(A[st.i + k + 1])]

ReadEvents(st, n, j) == [k \in 1..n |-> Event("value", st.i + k, j, 0, <<>>)]

\* LongOption with a fault: a flag that lacks a value accumulates the empty
\* text instead of the call throwing (C15 must notice)
LongOptionPadsMissing(F, A, arg, st) ==
    LET found == LastIndexOf(arg, "=") >= 0
        lastEquals == IF found THEN LastIndexOf(arg, "=") ELSE Len(arg)
        dataStart == IF found THEN LastIndexOf(arg, "=") + 1 ELSE -1
        name == Substring(arg, 2, lastEquals)
        data == IF dataStart < 0 THEN <<>> ELSE <<SubstringFrom(arg, dataStart)>>
        extra == IF dataStart < 0 THEN 0 ELSE 1
        k == LookupLong(F, name)
    IN  IF k = 0 THEN Throw(st, "unknown long option", name)
        ELSE LET flag == F[k]
                 nargs == FlagArgs(flag)
                 r == IF nargs > 0
                      THEN IF st.i + 1 + nargs - extra > Len(A)
                           THEN Match(F, st, k, <<<<>>>>, 0, 0)
                           ELSE Match(F, [st EXCEPT !.events = st.events \o ReadEvents(st, nargs - extra, 0)],
                                      k, data \o ReadValues(A, st, nargs - extra),
                                      nargs - extra, 0)
                      ELSE Match(F, st, k, <<>>, 0, 0)
             IN  IF r.status = "run" THEN [r EXCEPT !.i = r.i + 1] ELSE r

\* the branch of a token that starts with "--" (lines 635-690)
LongOption(F, A, arg, st) ==
    LET found == LastIndexOf(arg, "=") >= 0
        lastEquals == IF found THEN LastIndexOf(arg, "=") ELSE Len(arg)
        dataStart == IF found THEN LastIndexOf(arg, "=") + 1 ELSE -1
        name == Substring(arg, 2, lastEquals)
        data == IF dataStart < 0 THEN <<>> ELSE <<SubstringFrom(arg, dataStart)>>
        extra == IF dataStart < 0 THEN 0 ELSE 1
        k == LookupLong(F, name)
    IN  IF k = 0 THEN Throw(st, "unknown long option", name)
        ELSE LET flag == F[k]
                 nargs == FlagArgs(flag)
                 r == IF nargs > 0
                      THEN IF st.i + 1 + nargs - extra > Len(A)
                           THEN Throw(st, "too few arguments", name)
                           ELSE Match(F, [st EXCEPT !.events = st.events \o ReadEvents(st, nargs - extra, 0)],
                                      k, data \o ReadValues(A, st, nargs - extra),
                                      nargs - extra, 0)
                      ELSE Match(F, st, k, <<>>, 0, 0)
             IN  IF r.status = "run" THEN [r EXCEPT !.i = r.i + 1] ELSE r

RECURSIVE ShortClusterScansRemainder(_, _, _, _, _)
\* ShortCluster with a fault: j is not moved to the end of the token when the
\* remainder is taken as a value (C10 must notice)
ShortClusterScansRemainder(F, A, arg, st, j) ==
    IF ~(j < Len(arg)) THEN [st EXCEPT !.i = st.i + 1]
    ELSE LET flagChar == arg[j + 1]
             k == LookupShort(F, flagChar)
             seen == [st EXCEPT !.events = st.events \o <<Event("char", st.i, j, 0, <<>>)>>]
         IN  IF k = 0 THEN Throw(seen, "unknown short option", <<flagChar>>)
             ELSE LET flag == F[k]
                      nargs == FlagArgs(flag)
                      attached == j + 1 < Len(arg)
                      extra == IF attached THEN 1 ELSE 0
                      r == IF nargs > 0
                           THEN IF st.i + 1 + nargs - extra > Len(A)
                                THEN Throw(seen, "too few arguments", flag.long)
                                ELSE Match(F, [seen EXCEPT !.events = seen.events \o ReadEvents(st, nargs - extra, j)],
                                           k,
                                           (IF attached THEN <<SubstringFrom(arg, j + 1)>> ELSE <<>>)
                                               \o ReadValues(A, st, nargs - extra),
                                           nargs - extra, j)
                           ELSE Match(F, seen, k, <<>>, 0, j)
                      next == j + 1
                  IN  IF r.status = "run" THEN ShortClusterScansRemainder(F, A, arg, r, next) ELSE r

RECURSIVE ShortClusterReadsPastEnd(_, _, _, _, _)
\* ShortCluster with a fault: the test for too few arguments allows one token
\* more than the input has, and the read past the end yields the text of
\* undefined (C29 must notice)
ShortClusterReadsPastEnd(F, A, arg, st, j) ==
    IF ~(j < Len(arg)) THEN [st EXCEPT !.i = st.i + 1]
    ELSE LET flagChar == arg[j + 1]
             k == LookupShort(F, flagChar)
             seen == [st EXCEPT !.events = st.events \o <<Event("char", st.i, j, 0, <<>>)>>]
         IN  IF k = 0 THEN Throw(seen, "unknown short option", <<flagChar>>)
             ELSE LET flag == F[k]
                      nargs == FlagArgs(flag)
                      attached == j + 1 < Len(arg)
                      extra == IF attached THEN 1 ELSE 0
                      r == IF nargs > 0
                           THEN IF st.i + nargs - extra > Len(A)
                                THEN Throw(seen, "too few arguments", flag.long)
                                ELSE Match(F, [seen EXCEPT !.events = seen.events \o ReadEvents(st, nargs - extra, j)],
                                           k,
                                           (IF attached THEN <<SubstringFrom(arg, j + 1)>> ELSE <<>>)
                                               \o [n \in 1..(nargs - extra) |->
                                                       IF st.i + n + 1 <= Len(A)
                                                       THEN toString(A[st.i + n + 1])
                                                       ELSE <<"u", "n", "d", "e", "f", "i", "n", "e", "d">>],
                                           nargs - extra, j)
                           ELSE Match(F, seen, k, <<>>, 0, j)
                      next == IF nargs > 0 /\ attached THEN Len(arg) + 1 ELSE j + 1
                  IN  IF r.status = "run" THEN ShortClusterReadsPastEnd(F, A, arg, r, next) ELSE r

RECURSIVE ShortCluster(_, _, _, _, _)
\* the loop over the characters of a token that starts with "-" (lines 691-733)
ShortCluster(F, A, arg, st, j) ==
    IF ~(j < Len(arg)) THEN [st EXCEPT !.i = st.i + 1]
    ELSE LET flagChar == arg[j + 1]
             k == LookupShort(F, flagChar)
             seen == [st EXCEPT !.events = st.events \o <<Event("char", st.i, j, 0, <<>>)>>]
         IN  IF k = 0 THEN Throw(seen, "unknown short option", <<flagChar>>)
             ELSE LET flag == F[k]
                      nargs == FlagArgs(flag)
                      attached == j + 1 < Len(arg)
                      extra == IF attached THEN 1 ELSE 0
                      r == IF nargs > 0
                           THEN IF st.i + 1 + nargs - extra > Len(A)
                                THEN Throw(seen, "too few arguments", flag.long)
                                ELSE Match(F, [seen EXCEPT !.events = seen.events \o ReadEvents(st, nargs - extra, j)],
                                           k,
                                           (IF attached THEN <<SubstringFrom(arg, j + 1)>> ELSE <<>>)
                                               \o ReadValues(A, st, nargs - extra),
                                           nargs - extra, j)
                           ELSE Match(F, seen, k, <<>>, 0, j)
                      next == IF nargs > 0 /\ attached THEN Len(arg) + 1 ELSE j + 1
                  IN  IF r.status = "run" THEN ShortCluster(F, A, arg, r, next) ELSE r

\* DispatchToken with a fault: the sentinel appends the rest of the input but
\* the loop is not left (C1 must notice)
DispatchTokenNoBreak(F, A, st) ==
    LET arg == toString(A[st.i + 1])
        seen == [st EXCEPT !.events = st.events \o <<Event("token", st.i, 0, 0, <<>>)>>]
    IN  IF arg = <<"-", "-">>
        THEN [seen EXCEPT !.positional = st.positional \o SubSeq(A, st.i + 2, Len(A)),
                          !.i = st.i + 1]
        ELSE IF StartsWith(arg, <<"-", "-">>) THEN LongOption(F, A, arg, seen)
        ELSE IF StartsWith(arg, <<"-">>) THEN ShortCluster(F, A, arg, seen, 1)
        ELSE [seen EXCEPT !.positional = Append(st.positional, Str(arg)), !.i = st.i + 1]

\* DispatchToken with a fault: a positional moves the cursor by two, so that
\* the token after it is never looked at (C25 must notice)
DispatchTokenSkipsAfterPositional(F, A, st) ==
    LET arg == toString(A[st.i + 1])
        seen == [st EXCEPT !.events = st.events \o <<Event("token", st.i, 0, 0, <<>>)>>]
    IN  IF arg = <<"-", "-">>
        THEN [seen EXCEPT !.positional = st.positional \o SubSeq(A, st.i + 2, Len(A)),
                          !.status = "ok"]
        ELSE IF StartsWith(arg, <<"-", "-">>) THEN LongOption(F, A, arg, seen)
        ELSE IF StartsWith(arg, <<"-">>) THEN ShortCluster(F, A, arg, seen, 1)
        ELSE [seen EXCEPT !.positional = Append(st.positional, Str(arg)), !.i = st.i + 2]

\* one iteration of the token loop (lines 620-739)
DispatchToken(F, A, st) ==
    LET arg == toString(A[st.i + 1])
        seen == [st EXCEPT !.events = st.events \o <<Event("token", st.i, 0, 0, <<>>)>>]
    IN  IF arg = <<"-", "-">>
        THEN [seen EXCEPT !.positional = st.positional \o SubSeq(A, st.i + 2, Len(A)),
                          !.status = "ok"]
        ELSE IF StartsWith(arg, <<"-", "-">>) THEN LongOption(F, A, arg, seen)
        ELSE IF StartsWith(arg, <<"-">>) THEN ShortCluster(F, A, arg, seen, 1)
        ELSE [seen EXCEPT !.positional = Append(st.positional, Str(arg)), !.i = st.i + 1]

RECURSIVE TokenLoop(_, _, _)
\* while(i < args.length): run to the break, a return or a throw
TokenLoop(F, A, st) ==
    IF st.status # "run" THEN st
    ELSE IF ~(st.i < Len(A)) THEN [st EXCEPT !.status = "ok"]
    ELSE TokenLoop(F, A, DispatchToken(F, A, st))

\* the state in which the call parseRaw(A) on flags F ends
ParseRaw(F, A) == TokenLoop(F, A, ParseStart(F))

\* Outcome with a fault: the early exit returns what was accumulated (C5 must
\* notice)
OutcomeKeepsAccumulated(st) ==
    CASE st.status = "ok" ->
            [thrown |-> FALSE, exit |-> FALSE, flags |-> st.values, args |-> st.positional,
             err |-> NoErr]
      [] st.status = "exit" ->
            [thrown |-> FALSE, exit |-> TRUE, flags |-> st.values, args |-> st.positional,
             err |-> NoErr]
      [] st.status = "error" ->
            [thrown |-> TRUE, exit |-> FALSE, flags |-> [n \in {} |-> Null], args |-> <<>>,
             err |-> st.err]

\* what the caller of parseRaw gets: the returned object, or the error thrown
Outcome(st) ==
    CASE st.status = "ok" ->
            [thrown |-> FALSE, exit |-> FALSE, flags |-> st.values, args |-> st.positional,
             err |-> NoErr]
      [] st.status = "exit" ->
            [thrown |-> FALSE, exit |-> TRUE, flags |-> EmptyMap, args |-> <<>>, err |-> NoErr]
      [] st.status = "error" ->
            [thrown |-> TRUE, exit |-> FALSE, flags |-> EmptyMap, args |-> <<>>, err |-> st.err]

NoResult == [thrown |-> FALSE, exit |-> FALSE, flags |-> EmptyMap, args |-> <<>>, err |-> NoErr]

\* the help action ran in the call: printHelp has sorted this.flags
HelpPrinted(evs) == \E k \in DOMAIN evs : evs[k].e = "printHelp"

---------------------------------------------------------------------------
(* Parser.parse (lines 570-592): parseRaw inside a try.  H is how the      *)
(* host's ns.exit() behaves when it is called: it "returns", it "ends" the *)
(* script without returning, or it "throws" to unwind the script.  The     *)
(* outcome of parse is what its caller sees: ret tells whether parse       *)
(* returned, data is the object returned, calls the calls parse itself     *)
(* made, in order: printHelp(reason) with the error caught, and ns.exit(). *)

HostExits == {"returns", "ends", "throws"}

HelpCall(err) == [call |-> "printHelp", reason |-> err]

ExitCall == [call |-> "ns.exit", reason |-> NoErr]

\* the error the host throws out of ns.exit()
ScriptDeath == [kind |-> "script death", name |-> <<>>]

\* the object parse returns from its catch block
ExitData == [thrown |-> FALSE, exit |-> TRUE, flags |-> EmptyMap, args |-> <<>>, err |-> NoErr]

\* Catch with a fault: printHelp is called without the error, and with
\* this.exit on the host's exit is not called (C19 must notice)
CatchDropsReason(err, before, ex, H) ==
    [ret |-> TRUE, data |-> ExitData, calls |-> before \o <<HelpCall(NoErr)>>]

\* the catch block (lines 580-591), entered with the error err after the
\* calls before
Catch(err, before, ex, H) ==
    IF ex
    THEN [ret |-> H = "returns", data |-> IF H = "returns" THEN ExitData ELSE NoResult,
          calls |-> before \o <<HelpCall(err), ExitCall>>]
    ELSE [ret |-> TRUE, data |-> ExitData, calls |-> before \o <<HelpCall(err)>>]

\* the try block (lines 571-579) once parseRaw has ended with data, the
\* object it returned or the error it threw
Try(data, ex, H) ==
    IF data.thrown THEN Catch(data.err, <<>>, ex, H)
    ELSE IF data.exit /\ ex
         THEN CASE H = "returns" -> [ret |-> TRUE, data |-> data, calls |-> <<ExitCall>>]
                [] H = "ends" -> [ret |-> FALSE, data |-> NoResult, calls |-> <<ExitCall>>]
                [] H = "throws" -> Catch(ScriptDeath, <<ExitCall>>, ex, H)
         ELSE [ret |-> TRUE, data |-> data, calls |-> <<>>]

\* parse(A) on the flags F with this.exit = ex
Parse(F, A, ex, H) == Try(Outcome(ParseRaw(F, A)), ex, H)

\* printHelp ran in the call, as the help flag's action or in the catch block
HelpRendered(evs, calls) ==
    HelpPrinted(evs) \/ \E k \in DOMAIN calls : calls[k].call = "printHelp"

---------------------------------------------------------------------------
(* The callers.  A script builds its Parser with one statement per flag,   *)
(* a registration followed by a chain of setters, such as                  *)
(*     p.counter("verbose").shortOpt('v')                                  *)
(*     p.number("max-threads").shortOpt('T').default("-1")                 *)
(* and then parses its argument vector.  A chain is the record of the      *)
(* setters of one statement: short is the text given to shortOpt (<<>>     *)
(* when it is not called), default the literal given to default (Null      *)
(* when it is not called), forceExit and action likewise.                  *)

MaxFlags == 2

MaxArgs == 3

VB == <<"v", "b">>

PT == <<"p", "t">>

Chain(name, short, dflt, fe, act) ==
    [name |-> name, short |-> short, default |-> dflt, forceExit |-> fe, action |-> act]

FlagChains ==
    { Chain(VB, <<"v">>, Null, FALSE, "callback"),
      Chain(PT, <<"p">>, Null, TRUE, "callback"),
      Chain(VB, <<"h">>, Null, FALSE, "none") }

StringChains == { Chain(PT, <<"p">>, Str(<<"a", "b">>), FALSE, "none") }

NumberChains == { Chain(PT, <<>>, Null, FALSE, "none") }

IntegerChains == { Chain(PT, <<"p">>, Str(<<"7">>), FALSE, "callback") }

CounterChains ==
    { Chain(VB, <<"v">>, Null, FALSE, "none"),
      Chain(VB, <<"v">>, Str(<<"2">>), FALSE, "callback") }

\* the setters of chain c applied to the flag a registration returned
Configure(f, c) ==
    LET f1 == IF c.short # <<>> THEN FlagShortOpt(f, c.short) ELSE f
        f2 == IF c.default # Null THEN FlagDefault(f1, c.default) ELSE f1
        f3 == IF c.forceExit THEN FlagForceExit(f2, TRUE) ELSE f2
    IN  IF c.action # "none" THEN FlagAction(f3, c.action) ELSE f3

\* the flag a registration pushed last is the one its statement configures
ConfigureLast(F, c) == [F EXCEPT ![Len(F)] = Configure(F[Len(F)], c)]

\* the argument tokens: texts, and a number as the host pre-parses it
Txt(cs) == Str(cs)

Tokens ==
    { Txt(<<"-", "-">>),
      Txt(<<"-", "-">> \o VB),
      Txt(<<"-", "-">> \o PT),
      Txt(<<"-", "-">> \o PT \o <<"=", "7">>),
      Txt(<<"-", "-">> \o PT \o <<"=", "a", "=", "b">>),
      Txt(<<"-", "-">> \o VB \o <<"=", "7">>),
      Txt(<<"-", "-">> \o HelpName),
      Txt(<<"-", "-", "z", "z">>),
      Txt(<<"-", "v">>),
      Txt(<<"-", "p">>),
      Txt(<<"-", "h">>),
      Txt(<<"-", "v", "v", "p">>),
      Txt(<<"-", "v", "p", "7">>),
      Txt(<<"-", "v", "p", "h">>),
      Txt(<<"-", "v", "h", "p">>),
      Txt(<<"-">>),
      Txt(<<"7">>),
      Num(7) }

ArgVectors == UNION { [1..n -> Tokens] : n \in 0..MaxArgs }

\* the argument vectors given to Parser.parse
MaxParseArgs == 2

ParseArgVectors == UNION { [1..n -> Tokens] : n \in 0..MaxParseArgs }

---------------------------------------------------------------------------
(* The state machine.  flags is this.flags of the one Parser; pc is "idle" *)
(* between calls and "returned" when parseRaw has ended and its caller     *)
(* holds args, result (the outcome) and events (the history of the call);  *)
(* called is the flags the call built its lookup tables from.              *)

---------------------------------------------------------------------------
(* net-walk.js.  net is what ns.scan reports: for every server the set of  *)
(* its neighbours.  stack holds the calls of walkImpl that have not        *)
(* returned, the innermost last; a call is at "enter" before its test of   *)
(* hostname against parent, at "callback" while it awaits the callback,    *)
(* and at "loop" once it has scanned, with the children the loop has not   *)
(* taken yet.  visited lists the servers the callback was called with.     *)

Servers == {"home", "n1", "n2", "n3"}

\* the calls of walkImpl one walk may have open in the model
MaxDepth == 6

\* the neighbour relations the host may report: symmetric, and no server is
\* its own neighbour
Networks ==
    { n \in [Servers -> SUBSET Servers] :
        \A s, t \in Servers : (t \in n[s] <=> s \in n[t]) /\ s \notin n[s] }

\* no walk has been started
NoWalk ==
    /\ net = [s \in Servers |-> {}]
    /\ root = "home"
    /\ stack = <<>>
    /\ visited = <<>>
    /\ wpc = "idle"

Init ==
    /\ flags = ParserConstructor
    /\ pc = "idle"
    /\ args = <<>>
    /\ called = <<>>
    /\ result = NoResult
    /\ events = <<>>
    /\ exit = TRUE
    /\ host = <<>>
    /\ NoWalk

CanDeclare == pc = "idle" /\ Len(flags) < 1 + MaxFlags

\* p.flag(name)...
DeclareFlag(c) ==
    /\ CanDeclare
    /\ flags' = ConfigureLast(ParserFlag(flags, c.name), c)
    /\ UNCHANGED <<exit, pc, args, called, result, events, host>>
    /\ UNCHANGED walkVars

\* p.string(name)...
DeclareString(c) ==
    /\ CanDeclare
    /\ flags' = ConfigureLast(ParserString(flags, c.name), c)
    /\ UNCHANGED <<exit, pc, args, called, result, events, host>>
    /\ UNCHANGED walkVars

\* p.number(name)...
DeclareNumber(c) ==
    /\ CanDeclare
    /\ flags' = ConfigureLast(ParserNumber(flags, c.name), c)
    /\ UNCHANGED <<exit, pc, args, called, result, events, host>>
    /\ UNCHANGED walkVars

\* p.integer(name)...
DeclareInteger(c) ==
    /\ CanDeclare
    /\ flags' = ConfigureLast(ParserInteger(flags, c.name), c)
    /\ UNCHANGED <<exit, pc, args, called, result, events, host>>
    /\ UNCHANGED walkVars

\* p.counter(name)...
DeclareCounter(c) ==
    /\ CanDeclare
    /\ flags' = ConfigureLast(ParserCounter(flags, c.name), c)
    /\ UNCHANGED <<exit, pc, args, called, result, events, host>>
    /\ UNCHANGED walkVars

\* p.printHelp(): the listing is this.flags in its sorted order
PrintHelp ==
    /\ pc = "idle"
    /\ flags' = SortFlags(flags)
    /\ UNCHANGED <<exit, pc, args, called, result, events, host>>
    /\ UNCHANGED walkVars

\* what a call of parseRaw that ends in the state st leaves: its outcome,
\* its history, and this.flags sorted if the help action ran
ParseRawEnds(st) ==
    /\ result' = Outcome(st)
    /\ events' = st.events
    /\ flags' = IF HelpPrinted(st.events) THEN SortFlags(flags) ELSE flags

\* p.parseRaw(A), from the call to its return or throw
ParseRawOn(A) ==
    /\ pc = "idle"
    /\ ParseRawEnds(ParseRaw(flags, A))
    /\ args' = A
    /\ called' = flags
    /\ pc' = "returned"
    /\ UNCHANGED <<exit, host>>
    /\ UNCHANGED walkVars

\* a script calls p.parseRaw with its argument vector
CallParseRaw == pc = "idle" /\ \E A \in ArgVectors : ParseRawOn(A)

\* the caller calls p.parseRaw once more, with the argument vector of the
\* call that has returned
ParseRawAgain ==
    /\ pc = "returned"
    /\ ParseRawEnds(ParseRaw(flags, args))
    /\ called' = flags
    /\ UNCHANGED <<exit, pc, args, host>>
    /\ UNCHANGED walkVars

\* a script sets the public field: p.exit = on
AssignExit(on) ==
    /\ pc = "idle"
    /\ exit # on
    /\ exit' = on
    /\ UNCHANGED <<flags, pc, args, called, result, events, host>>
    /\ UNCHANGED walkVars

\* p.parse(A), from the call until it returns ("parsed") or the script is
\* over ("exited"): the state it leaves
ParseEnds(A, evs, r) ==
    /\ result' = r.data
    /\ events' = evs
    /\ host' = r.calls
    /\ flags' = IF HelpRendered(evs, r.calls) THEN SortFlags(flags) ELSE flags
    /\ pc' = IF r.ret THEN "parsed" ELSE "exited"
    /\ args' = A
    /\ called' = flags
    /\ UNCHANGED exit
    /\ UNCHANGED walkVars

\* evs is the history of the parseRaw inside the call, r the outcome of parse
ParseOn(A, H) ==
    /\ pc = "idle"
    /\ ParseEnds(A, ParseRaw(flags, A).events, Parse(flags, A, exit, H))

\* a script calls p.parse with its argument vector
CallParse == pc = "idle" /\ \E A \in ParseArgVectors : \E H \in HostExits : ParseOn(A, H)

\* the caller of parse is done with what it returned
DiscardParsed ==
    /\ pc = "parsed"
    /\ pc' = "idle"
    /\ args' = <<>>
    /\ called' = <<>>
    /\ result' = NoResult
    /\ events' = <<>>
    /\ host' = <<>>
    /\ UNCHANGED <<flags, exit>>
    /\ UNCHANGED walkVars

\* the caller is done with the outcome of the call
Discard ==
    /\ pc = "returned"
    /\ pc' = "idle"
    /\ args' = <<>>
    /\ called' = <<>>
    /\ result' = NoResult
    /\ events' = <<>>
    /\ UNCHANGED <<flags, exit, host>>
    /\ UNCHANGED walkVars

Next ==
    \/ \E c \in FlagChains : DeclareFlag(c)
    \/ \E c \in StringChains : DeclareString(c)
    \/ \E c \in NumberChains : DeclareNumber(c)
    \/ \E c \in IntegerChains : DeclareInteger(c)
    \/ \E c \in CounterChains : DeclareCounter(c)
    \/ PrintHelp
    \/ CallParseRaw
    \/ ParseRawAgain
    \/ Discard

Spec == Init /\ [][Next]_vars

\* the scripts that parse with Parser.parse
NextParse ==
    \/ \E c \in FlagChains : DeclareFlag(c)
    \/ \E c \in StringChains : DeclareString(c)
    \/ \E c \in NumberChains : DeclareNumber(c)
    \/ \E c \in IntegerChains : DeclareInteger(c)
    \/ \E c \in CounterChains : DeclareCounter(c)
    \/ \E on \in BOOLEAN : AssignExit(on)
    \/ CallParse
    \/ DiscardParsed

SpecParse == Init /\ [][NextParse]_vars

---------------------------------------------------------------------------
(* Vocabulary of the properties.  They are stated about the state in which *)
(* a call has returned: args is its input, called the flags it looked its  *)
(* options up in, result its outcome and events its history.               *)

Sentinel == <<"-", "-">>

\* the text of the token at the 0-based index i of the input
ArgText(i) == toString(args[i + 1])

\* the first index of ch in cs (0-based), -1 if absent
FirstIndexOf(cs, ch) ==
    IF \E k \in DOMAIN cs : cs[k] = ch
    THEN (CHOOSE k \in DOMAIN cs : cs[k] = ch /\ \A m \in DOMAIN cs : cs[m] = ch => k <= m) - 1
    ELSE -1

Succeeded == pc = "returned" /\ ~result.thrown /\ ~result.exit

\* the positions of the history at which flag k accumulated
MatchesOf(k) == { m \in DOMAIN events : events[m].e = "accumulate" /\ events[m].f = k }

IsAction(ev) == ev.e = "callback" \/ ev.e = "printHelp"

\* a token that is neither the sentinel nor an option token
IsPlain(tok) == ~StartsWith(toString(tok), <<"-">>)

---------------------------------------------------------------------------
\* C1: when parseRaw dispatches a token that is exactly "--", every token
\* after it is appended to the positionals in input order, in the form it has
\* in the input, and the call ends there without an error and without an
\* early exit: the dispatch of the sentinel is the last event of the history,
\* so no later token is dispatched or looked up, no value is read, no flag
\* accumulates and no action runs; the positionals before the appended ones
\* are exactly the plain tokens dispatched before the sentinel.
C1_SentinelEndsOptions ==
    pc = "returned" =>
        \A m \in DOMAIN events :
            (events[m].e = "token" /\ ArgText(events[m].i) = Sentinel) =>
                LET rest == SubSeq(args, events[m].i + 2, Len(args))
                    before == { n \in 1..m : events[n].e = "token" /\ IsPlain(args[events[n].i + 1]) }
                IN  /\ m = Len(events)
                    /\ ~result.thrown /\ ~result.exit
                    /\ Len(result.args) = Cardinality(before) + Len(rest)
                    /\ SubSeq(result.args, Cardinality(before) + 1, Len(result.args)) = rest

\* a sentinel followed by a registered long option and a cluster of a
\* registered alias, both returned as positionals
C1_Witness ==
    /\ pc = "returned"
    /\ Len(args) = 3
    /\ ArgText(0) = Sentinel
    /\ StartsWith(ArgText(1), Sentinel)
    /\ LookupLong(called, SubstringFrom(ArgText(1), 2)) > 0
    /\ Len(ArgText(2)) > 1 /\ ArgText(2)[1] = "-"
    /\ LookupShort(called, ArgText(2)[2]) > 0
    /\ ~result.thrown /\ ~result.exit
    /\ result.args = <<args[2], args[3]>>

\* C2: the value of a long option is what follows the "=" that ends its name:
\* a call whose only token is "--" n "=" v, with n the long name of a string
\* flag, succeeds with flags[n] = v, also when v holds an "=" itself
\* ("--path=a=b" gives "a=b").
C2_FusedValueKeepsEquals ==
    (pc = "returned" /\ Len(args) = 1 /\ StartsWith(ArgText(0), Sentinel)
        /\ FirstIndexOf(ArgText(0), "=") > 2) =>
        LET n == Substring(ArgText(0), 2, FirstIndexOf(ArgText(0), "="))
            v == SubstringFrom(ArgText(0), FirstIndexOf(ArgText(0), "=") + 1)
            k == LookupLong(called, n)
        IN  (k > 0 /\ called[k].parser = "string") =>
                /\ ~result.thrown /\ ~result.exit
                /\ result.flags[n] = Str(v)

\* the four ways of giving the value v to the flag of long name n, alias s
LongFused(n, v) == <<Str(Sentinel \o n \o <<"=">> \o v)>>

LongSeparate(n, v) == <<Str(Sentinel \o n), Str(v)>>

ShortSeparate(s, v) == <<Str(<<"-", s>>), Str(v)>>

ShortAttached(s, v) == <<Str(<<"-", s>> \o v)>>

\* C3: for a registered flag of arity 1 with long name n and alias s, both
\* resolving to it, and a non-empty value v, the inputs ["--n=v"], ["--n", v],
\* ["-s", v] and ["-sv"] all parse successfully to the same result: the same
\* flags, no positionals, no exit.  Stated of a call whose input is the first
\* form: it succeeded with no positional, and the other three forms give the
\* same outcome.
C3_FourFormsAgree ==
    (pc = "returned" /\ Len(args) = 1) =>
        \A k \in DOMAIN called :
            LET n == called[k].long
                s == called[k].short
                prefix == Sentinel \o n \o <<"=">>
                v == SubstringFrom(ArgText(0), Len(prefix))
            IN  (/\ FlagArgs(called[k]) = 1 /\ s # NoShort
                 /\ LookupLong(called, n) = k /\ LookupShort(called, s) = k
                 /\ args[1].t = "str"
                 /\ StartsWith(ArgText(0), prefix) /\ v # <<>>) =>
                    /\ ~result.thrown /\ ~result.exit /\ result.args = <<>>
                    /\ Outcome(ParseRaw(called, LongSeparate(n, v))) = result
                    /\ Outcome(ParseRaw(called, ShortSeparate(s, v))) = result
                    /\ Outcome(ParseRaw(called, ShortAttached(s, v))) = result

\* C4: once a flag with forceExit set (the help flag, or a caller's) has
\* accumulated, matched by its long name or inside a cluster, parseRaw returns
\* exit = true at once.  Nothing follows the match in the history but the
\* action of that same flag: no later cluster character is looked up, no later
\* token is dispatched, no value is read, no other flag accumulates or acts,
\* and no error is raised.
C4_ForceExitStopsAtOnce ==
    pc = "returned" =>
        \A m \in DOMAIN events :
            (events[m].e = "accumulate" /\ called[events[m].f].forceExit) =>
                /\ result.exit /\ ~result.thrown
                /\ Len(events) <= m + 1
                /\ Len(events) = m + 1 =>
                      /\ IsAction(events[m + 1])
                      /\ events[m + 1].f = events[m].f
                      /\ events[m + 1].i = events[m].i
                      /\ events[m + 1].j = events[m].j

\* the help flag matched inside a cluster whose next character would raise
\* an error (an unknown alias, or a flag whose value is missing), with an
\* unknown long option as the next token
C4_Witness ==
    /\ pc = "returned"
    /\ Len(args) = 2
    /\ result.exit
    /\ \E m \in DOMAIN events :
          /\ events[m].e = "accumulate" /\ called[events[m].f].forceExit
          /\ events[m].j >= 1
          /\ events[m].j + 1 < Len(ArgText(events[m].i))
          /\ events[m].i = 0
          /\ LET k == LookupShort(called, ArgText(0)[events[m].j + 2])
             IN  k = 0 \/ FlagArgs(called[k]) > 0
    /\ StartsWith(ArgText(1), Sentinel)
    /\ Len(ArgText(1)) > 2
    /\ LookupLong(called, SubstringFrom(ArgText(1), 2)) = 0

\* C5: a result with exit = true has an empty flags map and an empty
\* positional list, whatever was accumulated before; the flag that accumulated
\* last is one with forceExit set, and every flag that accumulated in the
\* call and has an action, the terminating one included, has had its action
\* run right after its accumulate.
C5_ExitResultIsEmpty ==
    (pc = "returned" /\ result.exit) =>
        /\ result.flags = EmptyMap
        /\ result.args = <<>>
        /\ ~result.thrown
        /\ \E m \in DOMAIN events :
              /\ events[m].e = "accumulate" /\ called[events[m].f].forceExit
              /\ \A n \in DOMAIN events : events[n].e = "accumulate" => n <= m
        /\ \A m \in DOMAIN events :
              (events[m].e = "accumulate" /\ called[events[m].f].action # "none") =>
                  /\ m < Len(events)
                  /\ events[m + 1] = Event(called[events[m].f].action, events[m].i,
                                           events[m].j, events[m].f, <<>>)

\* an early exit after a positional was dispatched and after a flag with a
\* callback and a value had accumulated
C5_Witness ==
    /\ pc = "returned" /\ result.exit
    /\ \E m \in DOMAIN events : events[m].e = "token" /\ IsPlain(args[events[m].i + 1])
    /\ \E m \in DOMAIN events :
          /\ events[m].e = "accumulate" /\ events[m].v # <<>>
          /\ ~called[events[m].f].forceExit
          /\ m < Len(events)
          /\ events[m + 1].e = "callback"
    /\ events[Len(events)].e = "printHelp"

\* C6: after a parse that succeeded without an early exit, the keys of the
\* returned flags map are exactly the long names of the registered flags, the
\* help flag's included, whether or not the input mentions them.
C6_EveryLongNameHasEntry ==
    Succeeded => DOMAIN result.flags = { called[k].long : k \in DOMAIN called }

\* a successful parse with three registered flags of which one accumulated
\* and another did not
C6_Witness ==
    /\ Succeeded
    /\ Len(called) = 3
    /\ called[2].long # called[3].long
    /\ \E k \in DOMAIN called : MatchesOf(k) # {}
    /\ \E k \in DOMAIN called : MatchesOf(k) = {} /\ called[k].long # HelpName

\* the input holds no option token: every token before the first sentinel,
\* if there is one, is plain
NoOptionToken(A) ==
    \A k \in DOMAIN A :
        IsPlain(A[k]) \/ \E q \in 1..k : toString(A[q]) = Sentinel

\* C7: when the input holds no option token (only positionals, only tokens
\* after a sentinel, or nothing), the parse succeeds and the returned flags
\* map holds, for every registered flag, that flag's initialValue().
C7_UnmatchedFlagsKeepInitialValue ==
    (pc = "returned" /\ NoOptionToken(args)) =>
        /\ ~result.thrown /\ ~result.exit
        /\ \A k \in DOMAIN called :
              result.flags[called[k].long] = FlagInitialValue(called[k])

\* C8: for a counter flag, the final value of a successful parse is its
\* initial value plus the number of times the flag accumulated in the call,
\* by its long name, by its alias alone or inside a cluster.
C8_CounterCountsMatches ==
    Succeeded =>
        \A k \in DOMAIN called :
            called[k].parser = "counter" =>
                result.flags[called[k].long] =
                    Num(FlagInitialValue(called[k]).n + Cardinality(MatchesOf(k)))

\* the alias looked up for the character at index j of the cluster text arg
AliasAt(arg, j) == LookupShort(called, arg[j + 1])

\* arg is a cluster of at least two characters after the "-", of which the
\* last is the alias of a flag of arity 1 and every earlier one the alias of
\* a flag of arity 0
IsValueCluster(arg) ==
    /\ Len(arg) >= 3
    /\ arg[1] = "-" /\ arg[2] # "-"
    /\ \A j \in 1..(Len(arg) - 2) :
          AliasAt(arg, j) > 0 /\ FlagArgs(called[AliasAt(arg, j)]) = 0
    /\ AliasAt(arg, Len(arg) - 1) > 0
    /\ FlagArgs(called[AliasAt(arg, Len(arg) - 1)]) = 1

\* none of the flags of arity 0 in the cluster forces the exit
NoForceExitIn(arg) ==
    \A j \in 1..(Len(arg) - 2) : ~called[AliasAt(arg, j)].forceExit

\* what C9 says of the cluster dispatched at history position m: each flag
\* of arity 0 accumulates once, in order; the flag of arity 1 accumulates the
\* text of the next token, which is read as a value and never dispatched; and
\* when the call succeeds with that match the last one of its long name, the
\* flags map holds the value parsed from that token.
ClusterBindsNextToken(m) ==
    LET i == events[m].i
        arg == ArgText(i)
        last == Len(arg) - 1
        kp == AliasAt(arg, last)
    IN  /\ \A j \in 1..(last - 1) :
              Cardinality({ n \in DOMAIN events :
                  events[n] = Event("accumulate", i, j, AliasAt(arg, j), <<>>) }) = 1
        /\ \E n \in DOMAIN events :
              /\ events[n] = Event("accumulate", i, last, kp, <<ArgText(i + 1)>>)
              /\ \A j \in 1..(last - 1) : \E q \in 1..(n - 1) :
                    events[q] = Event("accumulate", i, j, AliasAt(arg, j), <<>>)
              /\ (Succeeded /\ \A q \in DOMAIN events :
                      (events[q].e = "accumulate" /\ called[events[q].f].long = called[kp].long)
                          => q <= n) =>
                    result.flags[called[kp].long] =
                        ParserAccumulate(called[kp].parser, Null, <<ArgText(i + 1)>>).v
        /\ \E n \in DOMAIN events : events[n] = Event("value", i + 1, last, 0, <<>>)
        /\ \A n \in DOMAIN events : events[n].e = "token" => events[n].i # i + 1

\* C9, as amended: in a dispatched cluster whose last character is a flag of
\* arity 1 and whose earlier characters are flags of arity 0 none of which
\* forces the exit, followed by another token, every flag of arity 0 is
\* matched, the flag of arity 1 is bound to the next whole token, and that
\* token is consumed: it is not dispatched, so it is neither looked up as an
\* option nor added to the positionals.
C9_ClusterBindsNextToken ==
    pc = "returned" =>
        \A m \in DOMAIN events :
            (/\ events[m].e = "token"
             /\ events[m].i + 1 < Len(args)
             /\ IsValueCluster(ArgText(events[m].i))
             /\ NoForceExitIn(ArgText(events[m].i))) => ClusterBindsNextToken(m)

\* C9 as first stated, for every cluster of flags of arity 0 that ends in a
\* flag of arity 1, whether or not one of them forces the exit
C9_AnyClusterBindsNextToken ==
    pc = "returned" =>
        \A m \in DOMAIN events :
            (/\ events[m].e = "token"
             /\ events[m].i + 1 < Len(args)
             /\ IsValueCluster(ArgText(events[m].i))) => ClusterBindsNextToken(m)

\* a successful parse of a cluster of two flags of arity 0 and one of arity
\* 1, followed by the value token
C9_Witness ==
    /\ Succeeded
    /\ Len(args) = 2
    /\ IsValueCluster(ArgText(0))
    /\ NoForceExitIn(ArgText(0))
    /\ Len(ArgText(0)) = 4
    /\ result.args = <<>>
    /\ result.flags[called[AliasAt(ArgText(0), 3)].long] = Num(7)

\* C10: when the character looked up in a cluster is the alias of a flag of
\* arity > 0 and characters follow it in the token, that flag accumulates
\* with the whole remainder of the token as its first value, and no character
\* of the remainder is looked up as an alias: the lookup of that character is
\* the last one for this token.
C10_AttachedRemainderIsValue ==
    pc = "returned" =>
        \A m \in DOMAIN events :
            (/\ events[m].e = "char"
             /\ AliasAt(ArgText(events[m].i), events[m].j) > 0
             /\ FlagArgs(called[AliasAt(ArgText(events[m].i), events[m].j)]) > 0
             /\ events[m].j + 1 < Len(ArgText(events[m].i))) =>
                /\ m < Len(events)
                /\ events[m + 1].e = "accumulate"
                /\ events[m + 1].i = events[m].i
                /\ events[m + 1].j = events[m].j
                /\ events[m + 1].f = AliasAt(ArgText(events[m].i), events[m].j)
                /\ events[m + 1].v[1] = SubstringFrom(ArgText(events[m].i), events[m].j + 1)
                /\ \A n \in DOMAIN events :
                      (events[n].e = "char" /\ events[n].i = events[m].i)
                          => events[n].j <= events[m].j

\* a flag of arity 1 reached in a cluster after a flag of arity 0, with the
\* registered alias "h" as the remainder, which becomes its value
C10_Witness ==
    /\ pc = "returned"
    /\ \E m \in DOMAIN events :
          /\ events[m].e = "accumulate"
          /\ events[m].j = 2
          /\ FlagArgs(called[events[m].f]) = 1
          /\ events[m].v = <<<<"h">>>>
          /\ LookupShort(called, "h") > 0
          /\ \E n \in 1..m : events[n].e = "accumulate" /\ events[n].j = 1
                                /\ events[n].i = events[m].i

---------------------------------------------------------------------------
\* the text is not the text of a number: parseInt and parseFloat give NaN
NotNumeric(cs) == ParseInt(cs) = NaN

\* C11: when a number or integer flag accumulates a value that is not
\* numeric, the call fails with a type-coercion error naming that value; it
\* does not end with a value stored for the flag.
C11_NonNumericValueIsRejected ==
    pc = "returned" =>
        \A m \in DOMAIN events :
            (/\ events[m].e = "accumulate"
             /\ called[events[m].f].parser \in {"number", "integer"}
             /\ NotNumeric(events[m].v[1])) =>
                /\ result.thrown
                /\ result.err.kind = "type coercion"
                /\ result.err.name = events[m].v[1]

---------------------------------------------------------------------------
\* C12: a registration under an empty long name or under a long name that is
\* already registered (the built-in "help" included) fails and leaves the
\* registry as it was, so in every state the long names of this.flags are
\* non-empty and pairwise distinct.
C12_LongNamesAreDistinct ==
    /\ \A a \in DOMAIN flags : flags[a].long # <<>>
    /\ \A a, b \in DOMAIN flags : a # b => flags[a].long # flags[b].long

---------------------------------------------------------------------------
\* C13: giving a flag a short alias that another flag holds (the built-in
\* "h" included) is a registration error, so in every state no two flags of
\* this.flags have the same short alias.
C13_ShortAliasesAreDistinct ==
    \A a, b \in DOMAIN flags :
        (a # b /\ flags[a].short # NoShort) => flags[a].short # flags[b].short

---------------------------------------------------------------------------
\* the name parseRaw looks up for a token that starts with "--"
OptionName(arg) ==
    Substring(arg, 2, IF LastIndexOf(arg, "=") >= 0 THEN LastIndexOf(arg, "=") ELSE Len(arg))

\* the call threw the error of kind kind about name, at the event m, and so
\* produced neither flags nor positionals
FailedAt(m, kind, name) ==
    /\ m = Len(events)
    /\ result.thrown /\ ~result.exit
    /\ result.err = [kind |-> kind, name |-> name]
    /\ result.flags = EmptyMap /\ result.args = <<>>

---------------------------------------------------------------------------
\* the arity of flag k of the call and the values a match of it at event m
\* has at hand: one if a value is fused or attached to the token, and the
\* tokens of the input after the token of the match
Arity(k) == FlagArgs(called[k])

Fused(m) ==
    LET arg == ArgText(events[m].i)
    IN  IF events[m].e = "token" THEN LastIndexOf(arg, "=") >= 0
        ELSE events[m].j + 1 < Len(arg)

\* the index of the token after the last one read so far as a value by the
\* token of event m, or after that token itself
NextUnread(m) ==
    LET reads == { events[n].i : n \in { q \in 1..m : events[q].e = "value" } }
        last == IF reads = {} THEN events[m].i
                ELSE CHOOSE x \in reads \cup {events[m].i} :
                        \A y \in reads \cup {events[m].i} : y <= x
    IN  last + 1

Available(m) == (IF Fused(m) THEN 1 ELSE 0) + (Len(args) - NextUnread(m))

\* the flag the lookup at event m finds: by the name of a long option token,
\* by the character of a cluster; 0 if none
FlagAt(m) ==
    LET arg == ArgText(events[m].i)
    IN  IF events[m].e = "token"
        THEN IF StartsWith(arg, Sentinel) /\ arg # Sentinel
             THEN LookupLong(called, OptionName(arg)) ELSE 0
        ELSE IF events[m].e = "char" THEN AliasAt(arg, events[m].j) ELSE 0

\* C15: when the lookup of a long option token or of a cluster character finds
\* a flag of arity n > 0 and fewer than n values are at hand (a fused or
\* attached value counting as the first, the rest being the tokens of the
\* input not yet read), the call throws "too few arguments" with the long
\* name of the flag; the lookup is the last event, so the flag has neither
\* accumulated nor run its action for this match.
C15_TooFewValuesIsAnError ==
    pc = "returned" =>
        \A m \in DOMAIN events :
            (FlagAt(m) > 0 /\ Arity(FlagAt(m)) > 0 /\ Available(m) < Arity(FlagAt(m))) =>
                FailedAt(m, "too few arguments", called[FlagAt(m)].long)

\* a flag of arity 1 is the last character of a cluster that is the last
\* token, after a flag in the same cluster has accumulated
C15_Witness ==
    /\ pc = "returned"
    /\ result.thrown
    /\ result.err.kind = "too few arguments"
    /\ events[Len(events)].e = "char"
    /\ events[Len(events)].j >= 2
    /\ events[Len(events)].i = Len(args) - 1
    /\ \E n \in DOMAIN events :
          events[n].e = "accumulate" /\ events[n].i = events[Len(events)].i

---------------------------------------------------------------------------
\* C16: a long option token with a value fused by "=" whose name is that of
\* a flag of arity 0 (a boolean flag, a counter, the help flag) is rejected
\* when it is matched: the call throws a usage error at the dispatch of the
\* token, and the flag does not accumulate.
C16_FusedValueOnArityZeroIsRejected ==
    pc = "returned" =>
        \A m \in DOMAIN events :
            (/\ events[m].e = "token"
             /\ FlagAt(m) > 0
             /\ Arity(FlagAt(m)) = 0
             /\ Fused(m)) =>
                /\ m = Len(events)
                /\ result.thrown
                /\ result.err.kind = "usage error"

---------------------------------------------------------------------------
\* C17: a call of parseRaw leaves the registry as it found it, and a second
\* call on the same Parser with the same input returns a result equal to
\* that of the first: the same flags map, the same positionals, the same
\* exit, or the same error.
C17_SecondCallAgrees ==
    [][(pc = "returned" /\ pc' = "returned") =>
            /\ flags = called
            /\ flags' = flags
            /\ result' = result]_vars

---------------------------------------------------------------------------
\* C18: in a call that succeeds, the value of a flag without a value parser
\* is true if the flag was matched at least once in the call, by its long
\* name or by its alias, and false if it was not matched.
C18_BooleanIsTrueIffMatched ==
    Succeeded =>
        \A k \in DOMAIN called :
            called[k].parser = "none" =>
                result.flags[called[k].long] = Bool(MatchesOf(k) # {})

---------------------------------------------------------------------------
\* Vocabulary of the properties of Parser.parse: the call is over when parse
\* has returned or the script has ended; the parseRaw inside it threw when
\* the same call of parseRaw throws.
ParseOver == pc \in {"parsed", "exited"}

RawOutcome == Outcome(ParseRaw(called, args))

HelpCalls == { k \in DOMAIN host : host[k].call = "printHelp" }

ExitCalls == { k \in DOMAIN host : host[k].call = "ns.exit" }

\* C19: when the parseRaw inside Parser.parse throws, parse calls printHelp
\* exactly once, with the error as the reason that heads the text, and the
\* help flag's action has not printed it before; then, if this.exit is on,
\* it calls ns.exit() once, and if this.exit is off it calls nothing else and
\* returns {exit: true, flags: {}, args: []}.  Whenever parse returns after
\* the throw it returns that object, never the flags or positionals parsed
\* before the error.
C19_ParseErrorPrintsHelpAndExits ==
    (ParseOver /\ RawOutcome.thrown) =>
        /\ ~HelpPrinted(events)
        /\ host[1] = HelpCall(RawOutcome.err)
        /\ HelpCalls = {1}
        /\ exit => host = <<HelpCall(RawOutcome.err), ExitCall>>
        /\ ~exit => (host = <<HelpCall(RawOutcome.err)>> /\ pc = "parsed")
        /\ pc = "parsed" => result = ExitData

\* an error after a flag has accumulated, with this.exit off: parse returns
C19_Witness ==
    /\ pc = "parsed"
    /\ ~exit
    /\ RawOutcome.thrown
    /\ \E m \in DOMAIN events : events[m].e = "accumulate"
    /\ result = ExitData
    /\ host = <<HelpCall(RawOutcome.err)>>

---------------------------------------------------------------------------
\* C20: whatever the caller has registered, a call whose first token is
\* "--help" or "-h" prints the help listing exactly once and returns with
\* exit = TRUE: the built-in help flag is found by its long name and by its
\* alias.
C20_HelpStaysReachable ==
    (pc = "returned" /\ Len(args) >= 1
        /\ ArgText(0) \in {Sentinel \o HelpName, <<"-", "h">>}) =>
    /\ ~result.thrown
    /\ result.exit
    /\ Cardinality({ m \in DOMAIN events : events[m].e = "printHelp" }) = 1

---------------------------------------------------------------------------
\* the index of the token dispatched as the sentinel, Len(args) if none
SentinelAt ==
    IF \E m \in DOMAIN events : events[m].e = "token" /\ ArgText(events[m].i) = Sentinel
    THEN events[CHOOSE m \in DOMAIN events :
                    events[m].e = "token" /\ ArgText(events[m].i) = Sentinel].i
    ELSE Len(args)

Dispatched(i) == \E m \in DOMAIN events : events[m].e = "token" /\ events[m].i = i

ReadAsValue(i) == \E m \in DOMAIN events : events[m].e = "value" /\ events[m].i = i

\* the token at i is an option token: dispatched, it starts with "-" and has
\* a name or a cluster of characters after it
IsOptionToken(i) ==
    /\ Dispatched(i)
    /\ StartsWith(ArgText(i), <<"-">>)
    /\ ArgText(i) # Sentinel
    /\ ArgText(i) # <<"-">>

\* the indices of the tokens that are no part of an option match and are not
\* the sentinel, in input order
Unconsumed ==
    SelectSeq([k \in 1..Len(args) |-> k - 1],
              LAMBDA i : i > SentinelAt
                            \/ (i < SentinelAt /\ ~IsOptionToken(i) /\ ~ReadAsValue(i)))

\* C21: in a call that succeeds, every token of the input is an option token,
\* a value read by the option matched before it, the sentinel, or a
\* positional, and is only one of these; the positionals are the tokens that
\* are no part of an option match (a token that is a single "-" among them),
\* in input order.
C21_EveryTokenIsAccountedFor ==
    Succeeded =>
        /\ \A i \in 0..(Len(args) - 1) :
              Dispatched(i) \/ ReadAsValue(i) \/ i > SentinelAt
        /\ \A i \in 0..(Len(args) - 1) : ~(Dispatched(i) /\ ReadAsValue(i))
        /\ Len(result.args) = Len(Unconsumed)
        /\ \A k \in 1..Len(Unconsumed) :
              toString(result.args[k]) = ArgText(Unconsumed[k])

---------------------------------------------------------------------------
\* the indices of the tokens parseRaw appends to the positionals, in input
\* order: the plain tokens dispatched before the sentinel, and every token
\* after it
Appended ==
    SelectSeq([k \in 1..Len(args) |-> k - 1],
              LAMBDA i : i > SentinelAt
                            \/ (i < SentinelAt /\ Dispatched(i) /\ IsPlain(args[i + 1])))

\* C22: the text of a token is used for matching only: in a call that
\* succeeds every positional is the token itself, in the form it has in the
\* input (a number stays a number), whether it was appended before the
\* sentinel or after it.
C22_PositionalsKeepTheirForm ==
    Succeeded =>
        /\ Len(result.args) = Len(Appended)
        /\ \A k \in 1..Len(Appended) : result.args[k] = args[Appended[k] + 1]

---------------------------------------------------------------------------
\* the positions of the history at which the action of flag k ran
ActionsOf(k) == { m \in DOMAIN events : IsAction(events[m]) /\ events[m].f = k }

\* C23: in every call, ended by a return, an early exit or an error, the
\* action of a flag runs once for each match of the flag and at no other
\* time: an accumulate of a flag that has an action is followed at once by
\* the run of that action, for the same token and cluster character, before
\* any other token or character is dispatched; every run of an action follows
\* the accumulate of its flag at once; so the runs of a flag's action are as
\* many as its matches, the terminating one included.
C23_ActionRunsOncePerMatch ==
    pc = "returned" =>
        /\ \A m \in DOMAIN events :
              (events[m].e = "accumulate" /\ called[events[m].f].action # "none") =>
                  /\ m < Len(events)
                  /\ events[m + 1].e = called[events[m].f].action
                  /\ events[m + 1].f = events[m].f
                  /\ events[m + 1].i = events[m].i
                  /\ events[m + 1].j = events[m].j
        /\ \A m \in DOMAIN events :
              IsAction(events[m]) =>
                  /\ m > 1
                  /\ events[m - 1].e = "accumulate"
                  /\ events[m - 1].f = events[m].f
                  /\ called[events[m].f].action = events[m].e
        /\ \A k \in DOMAIN called :
              Cardinality(ActionsOf(k)) =
                  IF called[k].action = "none" THEN 0 ELSE Cardinality(MatchesOf(k))

\* a flag with a callback matched twice in one cluster and once more by its
\* long name, in a call that a terminating match ends
C23_Witness ==
    /\ pc = "returned"
    /\ result.exit
    /\ \E k \in DOMAIN called :
          /\ called[k].action = "callback"
          /\ ~called[k].forceExit
          /\ Cardinality(ActionsOf(k)) = 3
          /\ \E m \in ActionsOf(k) : events[m].j = 0
          /\ \E m \in ActionsOf(k) : events[m].j = 2

---------------------------------------------------------------------------
\* the index of the token at which the call threw: that of its last event
FailedToken == events[Len(events)].i

\* the history of the call before it dispatched the token at which it threw
BeforeFailure == SelectSeq(events, LAMBDA ev : ev.i < FailedToken)

\* the event m is a match the design rejects as malformed: a number or
\* integer flag accumulating a value that is not numeric, or a long option
\* of arity 0 with a fused value
MalformedMatch(m) ==
    \/ /\ events[m].e = "accumulate"
       /\ called[events[m].f].parser \in {"number", "integer"}
       /\ NotNumeric(events[m].v[1])
    \/ /\ events[m].e = "token"
       /\ FlagAt(m) > 0
       /\ Arity(FlagAt(m)) = 0
       /\ Fused(m)

\* the scan went left to right and stopped where it threw: the history up to
\* the failing token is that of a call on the tokens before it, which ends
\* without an error; in the failing token every character looked up before
\* the failing one was matched; and the failing lookup is the last event
ScanStopsAtFailure ==
    LET before == ParseRaw(called, SubSeq(args, 1, FailedToken))
    IN  /\ before.status = "ok"
        /\ before.events = BeforeFailure
        /\ \A m \in (Len(BeforeFailure) + 1)..Len(events) : events[m].i = FailedToken
        /\ events[Len(events)].e \in {"token", "char"}
        /\ \A m \in (Len(BeforeFailure) + 1)..(Len(events) - 1) :
              events[m].e = "char" =>
                  \E n \in (m + 1)..Len(events) :
                      events[n].e = "accumulate" /\ events[n].j = events[m].j

\* C24: a call that throws has thrown at the leftmost malformed token: the
\* tokens before it were scanned left to right without anything malformed
\* among them, every option before the failure point has accumulated and run
\* its action, and nothing after the failure point is looked at.
C24_FailsAtLeftmostMalformed ==
    (pc = "returned" /\ result.thrown) =>
        /\ ScanStopsAtFailure
        /\ \A m \in 1..(Len(events) - 1) : ~MalformedMatch(m)

---------------------------------------------------------------------------
\* the positions of the history at which a token is dispatched: one for each
\* iteration of the token loop
Iterations == { m \in DOMAIN events : events[m].e = "token" }

\* the position at which the iteration after that of m starts, or one past
\* the history when m is the last iteration
IterationEnd(m) ==
    IF \E n \in Iterations : n > m
    THEN CHOOSE n \in Iterations : n > m /\ \A q \in Iterations : q > m => n <= q
    ELSE Len(events) + 1

\* the lookups of the iteration of m that found a flag: the dispatch of a
\* long option token, the characters of a cluster
LookupsOf(m) ==
    { q \in m..(IterationEnd(m) - 1) : events[q].e \in {"token", "char"} /\ FlagAt(q) > 0 }

\* the tokens a lookup takes after its own: the arity of the flag, counted
\* as 0 when it is not positive, less the value fused or attached
TakenBy(q) ==
    IF Arity(FlagAt(q)) > 0
    THEN Arity(FlagAt(q)) - (IF Fused(q) THEN 1 ELSE 0)
    ELSE 0

RECURSIVE SumTaken(_)
SumTaken(S) ==
    IF S = {} THEN 0
    ELSE LET q == CHOOSE x \in S : TRUE IN TakenBy(q) + SumTaken(S \ {q})

\* the cursor after the iteration of m, as the claim gives it
CursorAfter(m) == events[m].i + 1 + SumTaken(LookupsOf(m))

---------------------------------------------------------------------------
\* the positions of the history at which a token is read as a value
ValueReads == { q \in DOMAIN events : events[q].e = "value" }

\* the position of the accumulate call that receives the value read at q:
\* the first one after it, 0 when there is none
AccumulateOf(q) ==
    IF \E n \in (q + 1)..Len(events) : events[n].e = "accumulate"
    THEN CHOOSE n \in (q + 1)..Len(events) :
             /\ events[n].e = "accumulate"
             /\ \A r \in (q + 1)..(n - 1) : events[r].e # "accumulate"
    ELSE 0

\* C26: a token read as the value of an option is passed to the flag as its
\* text, whatever it looks like, and is never dispatched: it does not end the
\* scan as the sentinel, is not looked up as an option and is not appended to
\* the positionals; in a call that succeeds the token after it is dispatched
\* in its turn.
C26_ConsumedValueIsNeverDispatched ==
    pc = "returned" =>
        \A q \in ValueReads :
            /\ ~Dispatched(events[q].i)
            /\ SentinelAt # events[q].i
            /\ AccumulateOf(q) > 0 =>
                  /\ events[AccumulateOf(q)].v # <<>>
                  /\ events[AccumulateOf(q)].v[Len(events[AccumulateOf(q)].v)] = ArgText(events[q].i)
            /\ Succeeded =>
                  /\ Len(result.args) = Len(Appended)
                  /\ \A k \in 1..Len(Appended) : Appended[k] # events[q].i
                  /\ (events[q].i + 1 < Len(args)) =>
                        (Dispatched(events[q].i + 1) \/ ReadAsValue(events[q].i + 1))

\* a call that succeeds in which the sentinel is read as the value of an
\* option and the token after it is matched as an option
C26_Witness ==
    /\ Succeeded
    /\ Len(args) = 3
    /\ \E q \in ValueReads :
          /\ events[q].i = 1
          /\ ArgText(1) = Sentinel
          /\ \E m \in Iterations : events[m].i = 2 /\ LookupsOf(m) # {}
    /\ result.args = <<>>

---------------------------------------------------------------------------
\* C27: a step that renders the help, printHelp called by the script or run
\* as the action of the help flag inside parseRaw, leaves this.flags as it
\* was: the same flags in the same order.
C27_RenderingKeepsRegistry ==
    [][(PrintHelp \/ (pc' = "returned" /\ HelpPrinted(events'))) => flags' = flags]_vars

---------------------------------------------------------------------------
(* The help listing.  The registrations are those of buy-hacknet.js and of *)
(* deploy.js, whose aliases differ in case, and two flags without an       *)
(* alias; printHelp lists this.flags in the order its sort leaves.         *)

Delay == <<"d", "e", "l", "a", "y">>

DryRun == <<"d", "r", "y", "-", "r", "u", "n">>

PurchaseAdjust == <<"p", "u", "r", "c", "h", "a", "s", "e", "-", "a", "d", "j", "u", "s", "t">>

MoneyFactor == <<"m", "o", "n", "e", "y", "-", "f", "a", "c", "t", "o", "r">>

MaxThreads == <<"m", "a", "x", "-", "t", "h", "r", "e", "a", "d", "s">>

Quiet == <<"q", "u", "i", "e", "t">>

Verbose == <<"v", "e", "r", "b", "o", "s", "e">>

ListedFlagChains ==
    { Chain(DryRun, <<"D">>, Null, FALSE, "none"),
      Chain(Quiet, <<"q">>, Null, FALSE, "none"),
      Chain(Quiet, <<>>, Null, FALSE, "none"),
      Chain(DryRun, <<>>, Null, FALSE, "none") }

ListedIntegerChains == { Chain(Delay, <<"d">>, Str(<<"1", "0">>), FALSE, "none") }

ListedNumberChains ==
    { Chain(PurchaseAdjust, <<"P">>, Null, FALSE, "none"),
      Chain(MoneyFactor, <<"M">>, Null, FALSE, "none"),
      Chain(MaxThreads, <<"T">>, Null, FALSE, "none"),
      Chain(MoneyFactor, <<"m">>, Null, FALSE, "none") }

ListedCounterChains == { Chain(Verbose, <<"v">>, Null, FALSE, "none") }

\* a script that registers its flags and prints the help
NextHelp ==
    \/ \E c \in ListedFlagChains : DeclareFlag(c)
    \/ \E c \in ListedIntegerChains : DeclareInteger(c)
    \/ \E c \in ListedNumberChains : DeclareNumber(c)
    \/ \E c \in ListedCounterChains : DeclareCounter(c)
    \/ PrintHelp

SpecHelp == Init /\ [][NextHelp]_vars

\* how often the flag f is in the registry F
CountFlag(F, f) == Cardinality({ k \in DOMAIN F : F[k] = f })

\* the listing L holds the flags of the registry F, each as often
SameFlags(F, L) ==
    /\ Len(L) = Len(F)
    /\ \A k \in DOMAIN F : CountFlag(L, F[k]) = CountFlag(F, F[k])

\* the registry F with the flags at i and j exchanged
Exchanged(F, i, j) == [F EXCEPT ![i] = F[j], ![j] = F[i]]

\* no two flags of F have the same alias, and no two without an alias the
\* same long name
DistinctKeys(F) ==
    \A i, j \in DOMAIN F :
        i # j => IF F[i].short # NoShort \/ F[j].short # NoShort
                 THEN F[i].short # F[j].short
                 ELSE F[i].long # F[j].long

\* the alias x is listed no later than y in alphabetical order: by letter,
\* and for the same letter the lower case first
AlphabeticalAlias(x, y) ==
    \/ LetterIndex(x) < LetterIndex(y)
    \/ LetterIndex(x) = LetterIndex(y) /\ (IsUpper(x) => IsUpper(y))

\* the alias x is listed no later than y in the order of the code units
OrdinalAlias(x, y) == CodeUnit(x) <= CodeUnit(y)

\* the flags with an alias come first, the others are in alphabetical order
\* of their long names, and the listing has the flags of the registry; for
\* distinct keys it is the same for every order of registration
ListedByKind(F, L) ==
    /\ SameFlags(F, L)
    /\ \A a, b \in DOMAIN L :
          a < b =>
              /\ ~(L[a].short = NoShort /\ L[b].short # NoShort)
              /\ (L[a].short = NoShort /\ L[b].short = NoShort)
                    => LocaleCompare(L[a].long, L[b].long) <= 0
    /\ DistinctKeys(F) =>
          \A i, j \in DOMAIN F : SortFlags(Exchanged(F, i, j)) = L

\* C28 as the code has it: printHelp lists every flag with an alias before
\* every flag without one, the flags with an alias in alphabetical order of
\* the alias, where the lower case of a letter comes before its upper case
\* (the order of localeCompare), and the flags without an alias
\* alphabetically by long name; for flags of distinct aliases and names the
\* listing does not depend on the order of registration.
C28_ListingIsAlphabetical ==
    [][PrintHelp =>
          /\ ListedByKind(flags, flags')
          /\ \A a, b \in DOMAIN flags' :
                (a < b /\ flags'[a].short # NoShort /\ flags'[b].short # NoShort)
                    => AlphabeticalAlias(flags'[a].short, flags'[b].short)]_vars

\* C28 as stated: the same, with the flags that have an alias in the
\* case-sensitive ordinal order of the alias, every upper case letter before
\* every lower case letter.
C28_ListingIsOrdinal ==
    [][PrintHelp =>
          /\ ListedByKind(flags, flags')
          /\ \A a, b \in DOMAIN flags' :
                (a < b /\ flags'[a].short # NoShort /\ flags'[b].short # NoShort)
                    => OrdinalAlias(flags'[a].short, flags'[b].short)]_vars

\* printHelp has sorted the registry of buy-hacknet.js: the help flag, which
\* the constructor registers first, is listed after -d and -D, and -d before
\* -D
C28_Witness ==
    /\ pc = "idle"
    /\ Len(flags) = 3
    /\ flags[1].short = "d" /\ flags[1].long = Delay
    /\ flags[2].short = "D" /\ flags[2].long = DryRun
    /\ flags[3].long = HelpName

---------------------------------------------------------------------------
\* C29: every index at which parseRaw fetches a token of the input, to
\* dispatch it or to read it as the value of an option, is an index of the
\* input: at least 0 and below args.length; and every index at which it
\* fetches a character of a cluster is an index of the token.  This holds
\* whatever the call ends in, and when the option is the last character of
\* a cluster or the last token of the input.
C29_ReadsStayInBounds ==
    pc = "returned" =>
        \A m \in DOMAIN events :
            /\ events[m].e \in {"token", "value", "char"} =>
                  (0 <= events[m].i /\ events[m].i < Len(args))
            /\ events[m].e = "char" =>
                  (1 <= events[m].j /\ events[m].j < Len(ArgText(events[m].i)))

\* a call that succeeds in which the last character of a cluster of two or
\* more reads the last token of the input as its value
C29_Witness ==
    /\ Succeeded
    /\ Len(args) >= 2
    /\ \E q \in ValueReads :
          /\ events[q].i = Len(args) - 1
          /\ events[q].j >= 2
          /\ events[q].j = Len(ArgText(events[q].i - 1)) - 1

---------------------------------------------------------------------------
(* The walk of net-walk.js, one step of walkImpl at a time.                *)

\* a call walkImpl(ns, hostname, parent, callback) that has just begun
Frame(hostname, parent) ==
    [hostname |-> hostname, parent |-> parent, at |-> "enter", children |-> {}]

Top == stack[Len(stack)]

SetTop(f) == [stack EXCEPT ![Len(stack)] = f]

\* the parser of the script is left alone while it walks
InitWalk ==
    /\ flags = ParserConstructor
    /\ pc = "idle"
    /\ args = <<>>
    /\ called = <<>>
    /\ result = NoResult
    /\ events = <<>>
    /\ exit = TRUE
    /\ host = <<>>
    /\ net \in Networks
    /\ root = "home"
    /\ stack = <<>>
    /\ visited = <<>>
    /\ wpc = "idle"

\* walkImpl(ns, r, r, callback) is called
Start(r) ==
    /\ wpc = "idle"
    /\ root' = r
    /\ stack' = <<Frame(r, r)>>
    /\ visited' = <<>>
    /\ wpc' = "walking"
    /\ UNCHANGED net
    /\ UNCHANGED parserVars

\* walk(ns, callback)
walk == wpc = "idle" /\ Start("home")

\* walkFrom(ns, root, callback)
walkFrom == wpc = "idle" /\ \E r \in Servers : Start(r)

\* if(hostname != parent) await callback(hostname); a call for which the
\* test fails goes on to const children = ns.scan(hostname)
Enter ==
    /\ wpc = "walking"
    /\ Top.at = "enter"
    /\ IF Top.hostname # Top.parent
       THEN /\ visited' = Append(visited, Top.hostname)
            /\ stack' = SetTop([Top EXCEPT !.at = "callback"])
       ELSE /\ visited' = visited
            /\ stack' = SetTop([Top EXCEPT !.at = "loop", !.children = net[Top.hostname]])
    /\ UNCHANGED <<net, root, wpc>>
    /\ UNCHANGED parserVars

\* the callback settles and the call goes on to
\* const children = ns.scan(hostname)
CallbackSettles ==
    /\ wpc = "walking"
    /\ Top.at = "callback"
    /\ stack' = SetTop([Top EXCEPT !.at = "loop", !.children = net[Top.hostname]])
    /\ UNCHANGED <<net, root, visited, wpc>>
    /\ UNCHANGED parserVars

\* one iteration of for(let c of children): if(c != parent) await
\* walkImpl(ns, c, hostname, callback).  The order of the array is the
\* host's.
NextChild ==
    /\ wpc = "walking"
    /\ Top.at = "loop"
    /\ \E c \in Top.children :
          IF c # Top.parent
          THEN /\ Len(stack) < MaxDepth
               /\ stack' = Append(SetTop([Top EXCEPT !.children = Top.children \ {c}]),
                                  Frame(c, Top.hostname))
          ELSE stack' = SetTop([Top EXCEPT !.children = Top.children \ {c}])
    /\ UNCHANGED <<net, root, visited, wpc>>
    /\ UNCHANGED parserVars

\* the loop of a call is over and the call returns, to its caller or, for
\* the outermost call, to the script
Return ==
    /\ wpc = "walking"
    /\ Top.at = "loop"
    /\ Top.children = {}
    /\ stack' = SubSeq(stack, 1, Len(stack) - 1)
    /\ wpc' = IF Len(stack) = 1 THEN "done" ELSE "walking"
    /\ UNCHANGED <<net, root, visited>>
    /\ UNCHANGED parserVars

NextWalk == walk \/ walkFrom \/ Enter \/ CallbackSettles \/ NextChild \/ Return

\* the host runs a script that can take a step
SpecWalk == InitWalk /\ [][NextWalk]_vars /\ WF_vars(NextWalk)

RECURSIVE Reach(_, _)
\* the servers that can be reached from those of S, n more steps allowed
Reach(S, n) ==
    IF n = 0 THEN S ELSE Reach(S \cup UNION { net[s] : s \in S }, n - 1)

Reachable(r) == Reach({r}, Cardinality(Servers))

\* how often the callback was called with the server s
Visits(s) == Cardinality({ k \in DOMAIN visited : visited[k] = s })

\* no callback is running but that of the innermost call: every other call
\* awaits the call it made in its loop
OneCallbackAtATime ==
    \A k \in 1..(Len(stack) - 1) : stack[k].at = "loop"

\* C30: walkFrom(root, callback) ends for every network the host reports;
\* the callback is never called for root and never twice for a server; when
\* the walk has ended it has been called once for every server that can be
\* reached from root, other than root; and a callback has settled before
\* the walk goes on to the next server.
C30_WalkVisitsEachServerOnce ==
    /\ [](/\ Visits(root) = 0
          /\ \A s \in Servers : Visits(s) <= 1
          /\ OneCallbackAtATime
          /\ wpc = "done" => \A s \in Reachable(root) \ {root} : Visits(s) = 1)
    /\ (wpc = "walking" ~> wpc = "done")

====
